---- MODULE Spec2Model ----
(***************************************************************************)
(* PPOBuffer and PPO of src/src/ppo.py as a state machine.                 *)
(*                                                                         *)
(* Numbers.  Rewards and value estimates are small integers.  The          *)
(* discounts are the rationals GAMMA = 9/10 and GAMMA*LAMBDA = 171/200, so *)
(* every derived array is an exact rational; it is stored as an integer    *)
(* numerator over a fixed power of the denominators:                       *)
(*   returns      in units of 1 / RetScale                                 *)
(*   deltas       in units of 1 / GammaDen                                 *)
(*   advantage    in units of 1 / AdvScale  (the value of line 64)         *)
(* The column-wise rescaling of lines 66-68 needs a square root; it is     *)
(* recorded by the tag "normalized" and the array keeps the numerators     *)
(* that the rescaling is applied to.                                       *)
(*                                                                         *)
(* Arrays are functions from the row index (0-based, as in the source)     *)
(* to a row, a row being a function from the environment index to a        *)
(* number.  A deleted attribute (del self.values) is the value Deleted.    *)
(***************************************************************************)
EXTENDS Integers, Sequences, FiniteSets, TLC

\* ------------------------------------------------------------------ bounds
BufSize == 3
NumEnvs == 2
NumFrames == 1
MaxReward == 1
MaxValue == 1
MaxRollouts == 2
MaxRatioTenths == 20
MaxAdv == 2

\* ------------------------------------------------------- program constants
EPOCHS == 2
GammaNum == 9
GammaDen == 10
LamNum == 19
LamDen == 20
EpsTenths == 2
OneTenths == 10

GLNum == GammaNum * LamNum
GLDen == GammaDen * LamDen

Envs == 0 .. (NumEnvs - 1)
Rows == 0 .. (BufSize - 1)
ValueRows == 0 .. BufSize

Bcast(x) == [n \in Envs |-> x]

\* Inputs of the calls: one latent, action and log-prob per step, a value
\* estimate common to the environments (least or greatest), and rewards
\* that are either common to the environments (least or greatest) or given
\* to environment 0 alone.
ObsSet == {1}
EnvObsSet == {1, 2}
ActSet == {1}
LogProbSet == {-1}
RewardVecs == {Bcast(0), Bcast(MaxReward),
               [n \in Envs |-> IF n = 0 THEN 1 ELSE 0]}
EnvRewardVecs == {Bcast(0), Bcast(MaxReward)}
ValueVecs == {Bcast(0), Bcast(MaxValue)}
ZeroRow == Bcast(0)
Zeros(rows) == [t \in rows |-> ZeroRow]
Deleted == <<>>
Unset == <<>>

RECURSIVE Pow(_, _)
Pow(b, e) == IF e = 0 THEN 1 ELSE b * Pow(b, e - 1)

RECURSIVE SumOver(_, _)
SumOver(f, S) ==
  IF S = {} THEN 0
  ELSE LET s == CHOOSE s \in S : TRUE IN f[s] + SumOver(f, S \ {s})

RetScale == Pow(GammaDen, BufSize - 1)
AdvScale == GammaDen * Pow(GLDen, BufSize - 1)

VARIABLES
  \* PPOBuffer attributes
  ptr, obs, actions, rewards, returns, values, log_probs, advantage,
  normalized, calculated_gae, var_returns_val, mean_val,
  \* outcome of the last call on the buffer, and the rows written by a
  \* successful save() since the arrays were last allocated
  ret, written,
  \* PPO: position of the driver, the locals of rollout() and train()
  \* (they exist while the method runs), the tuple get_stats() returned
  pc, step, latent_repr, stats, epoch, timestep,
  \* history of the PPO object: calls made on the buffer; loop iterations
  \* completed by the current rollout and whether the last one saw done;
  \* last query of the policy/value model and last observation of the
  \* environment in a completed step; get() calls and optimizer steps of
  \* the current train(); rollouts and trains started; the method that
  \* returned last
  trace, env_steps, done_seen, lstm_call, env_obs, n_get, opt_steps,
  rollouts, trains, returned,
  \* one sample of the policy update: importance ratio (in tenths),
  \* advantage, and the terms of lines 214-217 computed from them
  ratio, adv, surr

bufvars == <<ptr, obs, actions, rewards, returns, values, log_probs,
             advantage, normalized, calculated_gae, var_returns_val,
             mean_val>>

ppovars == <<pc, step, latent_repr, stats, epoch, timestep, trace,
             env_steps, done_seen, lstm_call, env_obs, n_get, opt_steps,
             rollouts, trains, returned>>

surrvars == <<ratio, adv, surr>>

vars == <<ptr, obs, actions, rewards, returns, values, log_probs, advantage,
          normalized, calculated_gae, var_returns_val, mean_val,
          ret, written,
          pc, step, latent_repr, stats, epoch, timestep, trace,
          env_steps, done_seen, lstm_call, env_obs, n_get, opt_steps,
          rollouts, trains, returned, ratio, adv, surr>>

\* ---------------------------------------------------------- PPOBuffer
\* np.flip(x, axis=0): reverse the time axis.
flip_Identity(x) == x
flip(x) == [t \in Rows |-> x[(BufSize - 1) - t]]

\* scipy lfilter([1], [1, -d], x, axis=0): y[i] = x[i] + d*y[i-1] down the
\* time axis, one column per environment; d = num/den, and the result is in
\* units of 1 / den^(BufSize-1) of the unit of x.
RECURSIVE lfilter(_, _, _, _)
lfilter(x, num, den, i) ==
  IF i = 0
  THEN [n \in Envs |-> Pow(den, BufSize - 1) * x[0][n]]
  ELSE LET p == lfilter(x, num, den, i - 1)
       IN  [n \in Envs |-> Pow(den, BufSize - 1) * x[i][n]
                            + num * (p[n] \div den)]

discounted_sum(x, num, den) ==
  LET fx == flip(x)
      y  == [i \in Rows |-> lfilter(fx, num, den, i)]
  IN  flip(y)

\* n^2 * (population variance) of the numbers f[s], s in S, n = |S|: the sum
\* of (f[s] - f[u])^2 over the unordered pairs {s, u}.
RECURSIVE VarNum(_, _)
VarNum(f, S) ==
  IF S = {} THEN 0
  ELSE LET s == CHOOSE s \in S : TRUE
           sq == [u \in S \ {s} |-> (f[s] - f[u]) * (f[s] - f[u])]
       IN  SumOver(sq, S \ {s}) + VarNum(f, S \ {s})

Cells == Rows \X Envs
Flat(m) == [c \in Cells |-> m[c[1]][c[2]]]


\* Bounds check numpy makes on a[p] for an array of nrows rows (p >= 0).
IndexOk_OffByOne(p, nrows) == p <= nrows
IndexOk(p, nrows) == p < nrows

HasValues == DOMAIN values # {}

\* ------------------------------------------------------------- __init__
InitPPO ==
  /\ ptr = 0
  /\ obs = Zeros(Rows)
  /\ actions = Zeros(Rows)
  /\ rewards = Zeros(Rows)
  /\ returns = Zeros(Rows)
  /\ values = Zeros(ValueRows)
  /\ log_probs = Zeros(Rows)
  /\ advantage = Zeros(Rows)
  /\ normalized = FALSE
  /\ calculated_gae = FALSE
  /\ var_returns_val = Unset
  /\ mean_val = Unset
  /\ ret = [op |-> "init", raised |-> FALSE]
  /\ written = {}
  /\ pc = "idle"
  /\ step = 0
  /\ latent_repr = <<>>
  /\ stats = Unset
  /\ epoch = 0
  /\ timestep = 0
  /\ trace = <<>>
  /\ env_steps = 0
  /\ done_seen = FALSE
  /\ lstm_call = Unset
  /\ env_obs = 0
  /\ n_get = 0
  /\ opt_steps = 0
  /\ rollouts = 0
  /\ trains = 0
  /\ returned = ""

NoSurr == [done |-> FALSE, surr1 |-> 0, surr2 |-> 0, term |-> 0]

Init ==
  /\ InitPPO
  /\ ratio = OneTenths
  /\ adv = 0
  /\ surr = NoSurr

\* ---------------------------------------------------------------- reset
reset ==
  /\ obs' = Zeros(Rows)
  /\ actions' = Zeros(Rows)
  /\ rewards' = Zeros(Rows)
  /\ returns' = Zeros(Rows)
  /\ values' = Zeros(ValueRows)
  /\ log_probs' = Zeros(Rows)
  /\ advantage' = Zeros(Rows)
  /\ normalized' = FALSE
  /\ written' = {}
  /\ ret' = [op |-> "reset", raised |-> FALSE]
  /\ UNCHANGED <<ptr, calculated_gae, var_returns_val, mean_val>>

\* ----------------------------------------------------------------- save
\* Lines 40-45 run in order; the first failing subscript raises and leaves
\* the earlier assignments in place.
save(o, a, r, v, l) ==
  IF ~IndexOk(ptr, BufSize)
  THEN /\ ret' = [op |-> "save", raised |-> TRUE, exc |-> "IndexError",
                  row |-> ptr]
       /\ UNCHANGED <<bufvars, written>>
  ELSE IF ~HasValues
  THEN /\ obs' = [obs EXCEPT ![ptr] = o]
       /\ actions' = [actions EXCEPT ![ptr] = a]
       /\ rewards' = [rewards EXCEPT ![ptr] = r]
       /\ ret' = [op |-> "save", raised |-> TRUE, exc |-> "AttributeError",
                  row |-> ptr]
       /\ UNCHANGED <<ptr, returns, values, log_probs, advantage, normalized,
                      calculated_gae, var_returns_val, mean_val, written>>
  ELSE /\ obs' = [obs EXCEPT ![ptr] = o]
       /\ actions' = [actions EXCEPT ![ptr] = a]
       /\ rewards' = [rewards EXCEPT ![ptr] = r]
       /\ values' = [values EXCEPT ![ptr] = v]
       /\ log_probs' = [log_probs EXCEPT ![ptr] = l]
       /\ ptr' = ptr + 1
       /\ written' = written \cup {ptr}
       /\ ret' = [op |-> "save", raised |-> FALSE, exc |-> "",
                  row |-> ptr, o |-> o, a |-> a, r |-> r, v |-> v, l |-> l]
       /\ UNCHANGED <<returns, advantage, normalized, calculated_gae,
                      var_returns_val, mean_val>>

\* ---------------------------------------------------------- compute_gae
\* Row of self.values that receives next_value (line 62).
gae_row_Last(p) == BufSize
gae_row(p) == p

\* deltas of line 63, in units of 1 / GammaDen.
deltas_of(rew, vals) ==
  [t \in Rows |-> [n \in Envs |->
      GammaDen * rew[t][n] + GammaNum * vals[t + 1][n]
        - GammaDen * vals[t][n]]]

\* Line 69: np.mean(np.var(returns - values[:-1], axis=1)), times
\* NumEnvs^2 * BufSize * RetScale^2.
var_returns_val_of(rets, vals) ==
  LET diff == [t \in Rows |-> [n \in Envs |->
                   rets[t][n] - RetScale * vals[t][n]]]
      rowvar == [t \in Rows |-> VarNum(diff[t], Envs)]
  IN  SumOver(rowvar, Rows)

\* Line 70: np.mean(np.sum(values, axis=1)), times BufSize + 1.
mean_val_of(vals) ==
  LET rowsum == [t \in ValueRows |-> SumOver(vals[t], Envs)]
  IN  SumOver(rowsum, ValueRows)

compute_gae(next_value) ==
  IF ~HasValues
  THEN /\ ret' = [op |-> "compute_gae", raised |-> TRUE,
                  exc |-> "AttributeError", row |-> ptr]
       /\ UNCHANGED <<bufvars, written>>
  ELSE LET vals == [values EXCEPT ![gae_row(ptr)] = next_value]
           deltas == deltas_of(rewards, vals)
           rets == discounted_sum(rewards, GammaNum, GammaDen)
       IN  /\ advantage' = discounted_sum(deltas, GLNum, GLDen)
           /\ normalized' = TRUE
           /\ returns' = rets
           /\ var_returns_val' = var_returns_val_of(rets, vals)
           /\ mean_val' = mean_val_of(vals)
           /\ calculated_gae' = TRUE
           /\ values' = Deleted
           /\ ret' = [op |-> "compute_gae", raised |-> FALSE, exc |-> "",
                      row |-> ptr, next_value |-> next_value, vals |-> vals,
                      deltas |-> deltas]
           /\ UNCHANGED <<ptr, obs, actions, rewards, log_probs, written>>

\* ------------------------------------------------------------ can_train
can_train_value_Loose(p) == (p - NumFrames) > 0
can_train_value(p) == (p - NumFrames - 1) > 0

\* ------------------------------------------------------------ get_stats
\* The five scalars as exact fractions: a numerator and, for the last one,
\* the divisor np.var(self.returns) (times (BufSize*NumEnvs)^2).  The
\* normalized advantage has column means zero, and so has the zero array.
get_stats_value(cg, rew, rets, mv, vrv) ==
  IF ~cg
  THEN [op |-> "get_stats", raised |-> TRUE, exc |-> "AssertionError"]
  ELSE [op |-> "get_stats", raised |-> FALSE, exc |-> "",
        mean_rewards |-> SumOver(Flat(rew), Cells),
        mean_returns |-> SumOver(Flat(rets), Cells),
        mean_advantage |-> 0,
        mean_val |-> mv,
        ratio_num |-> vrv,
        ratio_den |-> VarNum(Flat(rets), Cells)]

\* A float division by zero gives inf or nan, with a warning and no raise.
Finite(st) == ~st.raised /\ st.ratio_den # 0

\* ------------------------------------------------------------------ get
\* np.random.randint(low=num_frames, high=ptr): raises when low >= high.
get_idx_set(p) == NumFrames .. (p - 1)
idx_range(idx) == (idx - NumFrames) .. (idx - 1)

get_value(idx) ==
  [op |-> "get", raised |-> FALSE, exc |-> "", idx |-> idx,
   window |-> idx_range(idx),
   obs |-> [k \in idx_range(idx) |-> obs[k]],
   actions |-> actions[idx], returns |-> returns[idx],
   log_probs |-> log_probs[idx], advantage |-> advantage[idx],
   rows_read |-> idx_range(idx) \cup {idx},
   rows_written |-> written, can_train |-> can_train_value(ptr)]

get_raise == [op |-> "get", raised |-> TRUE, exc |-> "ValueError"]

\* --------------------------------------- calls on a bare PPOBuffer
Save ==
  \E o \in ObsSet, a \in ActSet, r \in RewardVecs, v \in ValueVecs,
     l \in LogProbSet :
    /\ save(Bcast(o), Bcast(a), r, v, Bcast(l))
    /\ UNCHANGED <<ppovars, surrvars>>

ComputeGae ==
  \E nv \in ValueVecs :
    /\ compute_gae(nv)
    /\ UNCHANGED <<ppovars, surrvars>>

Reset == reset /\ UNCHANGED <<ppovars, surrvars>>

CanTrain ==
  /\ ret' = [op |-> "can_train", raised |-> FALSE, exc |-> "",
             value |-> can_train_value(ptr)]
  /\ UNCHANGED <<bufvars, written, ppovars, surrvars>>

GetStats ==
  /\ ret' = get_stats_value(calculated_gae, rewards, returns, mean_val,
                            var_returns_val)
  /\ UNCHANGED <<bufvars, written, ppovars, surrvars>>

Get ==
  /\ IF get_idx_set(ptr) = {}
     THEN ret' = get_raise
     ELSE \E idx \in get_idx_set(ptr) : ret' = get_value(idx)
  /\ UNCHANGED <<bufvars, written, ppovars, surrvars>>

Next ==
  \/ Save
  \/ ComputeGae
  \/ Reset
  \/ CanTrain
  \/ GetStats
  \/ Get

Spec == Init /\ [][Next]_vars

\* ------------------------------------------------------------ PPO.rollout
\* deque(maxlen=num_frames).append: push, evicting the oldest.
deque_append(w, x) == Append(Tail(w), x)

\* latent_repr[-1]
newest(w) == w[Len(w)]

\* Lines 135-144: reset the environments, seed the window with zeros and
\* push the first latent.
RolloutInit ==
  /\ pc = "idle"
  /\ rollouts < MaxRollouts
  /\ \E o \in EnvObsSet :
       /\ env_obs' = o
       /\ latent_repr' = deque_append([k \in 1 .. NumFrames |-> 0], o)
  /\ step' = 0
  /\ env_steps' = 0
  /\ done_seen' = FALSE
  /\ rollouts' = rollouts + 1
  /\ pc' = IF BufSize > 0 THEN "stepping" ELSE "terminal"
  /\ UNCHANGED <<bufvars, ret, written, stats, epoch, timestep, trace,
                 lstm_call, n_get, opt_steps, trains, returned, surrvars>>

\* Whether the for loop of line 149 goes on after an iteration.
loop_goes_on_IgnoreDone(done, i) == i + 1 < BufSize
loop_goes_on(done, i) == ~done /\ i + 1 < BufSize

\* Lines 149-170, one iteration of the loop.
RolloutStep ==
  /\ pc = "stepping"
  /\ \E v \in ValueVecs, a \in ActSet, l \in LogProbSet,
        o \in EnvObsSet, r \in EnvRewardVecs, done \in BOOLEAN :
       LET w == deque_append(latent_repr, o)
       IN  /\ save(Bcast(newest(w)), Bcast(a), r, v, Bcast(l))
           /\ IF ret'.raised
              THEN /\ pc' = "crashed"
                   /\ trace' = Append(trace, "save_raised")
                   /\ step' = 0
                   /\ latent_repr' = <<>>
                   /\ UNCHANGED <<lstm_call, env_obs, env_steps, done_seen>>
              ELSE /\ lstm_call' = [window |-> latent_repr, value |-> v]
                   /\ env_obs' = o
                   /\ env_steps' = env_steps + 1
                   /\ done_seen' = done
                   /\ latent_repr' = w
                   /\ trace' = Append(trace, "save")
                   /\ IF loop_goes_on(done, step)
                      THEN pc' = "stepping" /\ step' = step + 1
                      ELSE pc' = "terminal" /\ step' = step
  /\ UNCHANGED <<stats, epoch, timestep, n_get, opt_steps, rollouts,
                 trains, returned, surrvars>>

\* Lines 172-189: bootstrap value, compute_gae, get_stats, logging, return.
RolloutFinish ==
  /\ pc = "terminal"
  /\ \E nv \in ValueVecs :
       /\ compute_gae(nv)
       /\ lstm_call' = IF ret'.raised THEN lstm_call
                       ELSE [window |-> latent_repr, value |-> nv]
  /\ IF ret'.raised
     THEN /\ stats' = stats
          /\ trace' = Append(trace, "compute_gae_raised")
          /\ pc' = "crashed"
          /\ returned' = returned
     ELSE /\ stats' = get_stats_value(calculated_gae', rewards', returns',
                                      mean_val', var_returns_val')
          /\ trace' = trace \o <<"compute_gae", "get_stats">>
          /\ pc' = IF stats'.raised THEN "crashed" ELSE "idle"
          /\ returned' = IF stats'.raised THEN returned ELSE "rollout"
  /\ step' = 0
  /\ latent_repr' = <<>>
  /\ UNCHANGED <<epoch, timestep, env_steps, done_seen, env_obs, n_get,
                 opt_steps, rollouts, trains, surrvars>>

\* -------------------------------------------------------------- PPO.train
get_ptr == ptr

\* range(self.buffer.get_ptr() // self.env.num_envs)
epoch_len == get_ptr \div NumEnvs

\* Position once e passes of the outer loop (line 204) are over.
train_pc(e) ==
  IF e >= EPOCHS THEN "idle" ELSE "training"

\* Lines 193-204: the gate, then the entry of the loops.
TrainStart ==
  /\ pc = "idle"
  /\ returned = "rollout"
  /\ trains' = trains + 1
  /\ n_get' = 0
  /\ opt_steps' = 0
  /\ trace' = Append(trace, "can_train")
  /\ IF ~can_train_value(ptr) \/ epoch_len = 0
     THEN /\ pc' = "idle"
          /\ returned' = "train"
          /\ UNCHANGED <<epoch, timestep>>
     ELSE /\ pc' = "training"
          /\ returned' = returned
          /\ epoch' = 0
          /\ timestep' = 0
  /\ UNCHANGED <<bufvars, ret, written, step, latent_repr, stats,
                 env_steps, done_seen, lstm_call, env_obs, rollouts,
                 surrvars>>

\* Lines 206-234, one pass of the inner loop body: one sample, one
\* gradient step.
TrainStep ==
  /\ pc = "training"
  /\ IF get_idx_set(ptr) = {}
     THEN /\ ret' = get_raise
          /\ trace' = Append(trace, "get_raised")
          /\ pc' = "crashed"
          /\ UNCHANGED <<epoch, timestep, n_get, opt_steps, returned>>
     ELSE /\ \E idx \in get_idx_set(ptr) : ret' = get_value(idx)
          /\ trace' = Append(trace, "get")
          /\ n_get' = n_get + 1
          /\ opt_steps' = opt_steps + 1
          /\ IF timestep + 1 < epoch_len
             THEN /\ timestep' = timestep + 1
                  /\ epoch' = epoch
                  /\ pc' = "training"
                  /\ returned' = returned
             ELSE /\ timestep' = 0
                  /\ epoch' = epoch + 1
                  /\ pc' = train_pc(epoch + 1)
                  /\ returned' = IF epoch + 1 >= EPOCHS THEN "train"
                                 ELSE returned
  /\ UNCHANGED <<bufvars, written, step, latent_repr, stats, env_steps,
                 done_seen, lstm_call, env_obs, rollouts, trains, surrvars>>

NextPPO ==
  \/ RolloutInit
  \/ RolloutStep
  \/ RolloutFinish
  \/ TrainStart
  \/ TrainStep

SpecPPO == Init /\ [][NextPPO]_vars

\* ------------------------------------------- PPO.train, the actor term
Min(a, b) == IF a <= b THEN a ELSE b
Max(a, b) == IF a >= b THEN a ELSE b

\* torch.clamp(x, min, max) computes min(max(x, min), max); when min > max
\* every element becomes max.
clamp(x, lo, hi) == Min(Max(x, lo), hi)

\* Lines 214-217 for one sample; ratio and the results are in tenths.
surr1_of(rt, ad) == rt * ad
surr2_of(rt, ad) == clamp(rt, OneTenths + EpsTenths, OneTenths - EpsTenths) * ad
actor_term(rt, ad) == Min(surr1_of(rt, ad), surr2_of(rt, ad))

InitSurr ==
  /\ InitPPO
  /\ ratio \in 0 .. MaxRatioTenths
  /\ adv \in (0 - MaxAdv) .. MaxAdv
  /\ surr = NoSurr

Surrogate ==
  /\ ~surr.done
  /\ surr' = [done |-> TRUE, surr1 |-> surr1_of(ratio, adv),
              surr2 |-> surr2_of(ratio, adv), term |-> actor_term(ratio, adv)]
  /\ UNCHANGED <<bufvars, ret, written, ppovars, ratio, adv>>

NextSurr == Surrogate

SpecSurr == InitSurr /\ [][NextSurr]_vars

\* ======================================================== properties
ArraysZero ==
  /\ obs = Zeros(Rows)
  /\ actions = Zeros(Rows)
  /\ rewards = Zeros(Rows)
  /\ returns = Zeros(Rows)
  /\ HasValues
  /\ values = Zeros(ValueRows)
  /\ log_probs = Zeros(Rows)
  /\ advantage = Zeros(Rows)

\* A step that is a call of save(): only save() leaves ret.op = "save", and
\* a call that succeeds moves ptr.
SaveStep == ret'.op = "save" /\ <<bufvars, ret>>' # <<bufvars, ret>>

C1_SaveAction ==
  SaveStep =>
    IF ret'.raised
    THEN ptr' = ptr /\ (ptr = BufSize => bufvars' = bufvars)
    ELSE /\ ptr < BufSize
         /\ ptr' = ptr + 1
         /\ ret'.row = ptr
         /\ obs' = [obs EXCEPT ![ptr] = ret'.o]
         /\ actions' = [actions EXCEPT ![ptr] = ret'.a]
         /\ rewards' = [rewards EXCEPT ![ptr] = ret'.r]
         /\ values' = [values EXCEPT ![ptr] = ret'.v]
         /\ log_probs' = [log_probs EXCEPT ![ptr] = ret'.l]

C1_FullRaises ==
  (SaveStep /\ ptr = BufSize) => (ret'.raised /\ bufvars' = bufvars)

\* C1: every successful save() writes row ptr and adds exactly one to ptr;
\* a save() on a full buffer raises and writes nothing; hence ptr stays
\* within 0 .. buffer_size under every sequence of calls.
C1_PtrNeverExceeds ==
  /\ [](ptr \in 0 .. BufSize)
  /\ [][C1_SaveAction /\ C1_FullRaises]_vars

C1_Witness ==
  /\ ptr = BufSize
  /\ written = Rows
  /\ ret.op = "save"
  /\ ret.raised
  /\ ret.exc = "IndexError"

\* C2: after reset(), in whatever state it was called, every per-step array
\* is zero and ptr is 0, as in a freshly constructed buffer.
C2_ResetRestoresFresh ==
  ret.op = "reset" => (ArraysZero /\ ptr = 0 /\ ~calculated_gae)

\* C3: after a rollout() and a train() have completed, a second rollout()
\* on the same PPO object saves without failure starting at row 0 and ends
\* with a successful compute_gae().
C3_SecondRolloutRuns ==
  (rollouts = 2 /\ trains >= 1) =>
     /\ pc # "crashed"
     /\ (pc = "stepping" => ptr = env_steps)

\* C4 as stated: for every fill level 1 .. buffer_size, compute_gae writes
\* the bootstrap value into row buffer_size of the values array.
C4_BootstrapInLastRow ==
  (ret.op = "compute_gae" /\ ~ret.raised /\ ret.row \in 1 .. BufSize) =>
     ret.vals[BufSize] = ret.next_value

GaeStep == ret'.op = "compute_gae" /\ ~ret'.raised /\ HasValues /\ ~HasValues'

C4_GaeAction ==
  (GaeStep /\ ptr \in 1 .. BufSize) =>
     /\ ret'.row = ptr
     /\ ret'.vals = [values EXCEPT ![ptr] = ret'.next_value]
     /\ \A t \in 0 .. (ptr - 1) : \A n \in Envs :
          ret'.deltas[t][n] =
            GammaDen * rewards[t][n]
              + GammaNum * (IF t + 1 = ptr THEN ret'.next_value[n]
                            ELSE values[t + 1][n])
              - GammaDen * values[t][n]

\* C4, amended: for every fill level 1 .. buffer_size, compute_gae writes
\* the bootstrap value into row ptr of the values array (row buffer_size
\* only when the buffer is full) and leaves the other rows alone; for every
\* collected step t < ptr and environment n,
\* delta[t,n] = reward[t,n] + gamma*value[t+1,n] - value[t,n], where
\* value[ptr] is the bootstrap value.
C4_BootstrapInRowPtr == [][C4_GaeAction]_vars

C4_Witness ==
  /\ ret.op = "compute_gae"
  /\ ~ret.raised
  /\ ret.row \in 1 .. (BufSize - 1)
  /\ ret.next_value = Bcast(MaxValue)
  /\ ret.vals[BufSize] = ZeroRow
  /\ \E n \in Envs :
       ret.deltas[ret.row - 1][n] = GammaDen + GammaNum * MaxValue

\* sum over k in 0 .. T-1-t of d^k * x[t+k], d = num/den, times den^(T-1).
RECURSIVE ClosedSum(_, _, _, _, _, _)
ClosedSum(x, num, den, t, n, k) ==
  IF k > (BufSize - 1) - t THEN 0
  ELSE Pow(num, k) * Pow(den, (BufSize - 1) - k) * x[t + k][n]
         + ClosedSum(x, num, den, t, n, k + 1)

DiscountedSum(x, num, den) ==
  [t \in Rows |-> [n \in Envs |-> ClosedSum(x, num, den, t, n, 0)]]

C6_GetReadsWrittenRows ==
  (ret.op = "get" /\ ~ret.raised /\ ret.can_train) =>
     /\ ret.idx \in NumFrames .. (ptr - 1)
     /\ ret.window = (ret.idx - NumFrames) .. (ret.idx - 1)
     /\ Cardinality(ret.window) = NumFrames
     /\ ret.rows_read \subseteq 0 .. (ptr - 1)
     /\ ret.rows_read \subseteq ret.rows_written

TrainCall == pc = "idle" /\ trains' = trains + 1

C7_TrainAction ==
  TrainCall =>
    IF ptr <= NumFrames + 1
    THEN /\ pc' = "idle"
         /\ returned' = "train"
         /\ bufvars' = bufvars
         /\ ret' = ret
         /\ n_get' = 0
         /\ opt_steps' = 0
         /\ trace' = Append(trace, "can_train")
    ELSE /\ n_get' = 0
         /\ opt_steps' = 0
         /\ (ptr \div NumEnvs > 0 => pc' = "training")

C7_Counts ==
  /\ \A p \in 0 .. BufSize :
       can_train_value(p) <=> ~(p <= NumFrames + 1)
  /\ n_get = opt_steps
  /\ (pc = "training" => ptr > NumFrames + 1)
  /\ (pc = "idle" /\ returned = "train") =>
        opt_steps = IF ptr <= NumFrames + 1 THEN 0
                    ELSE EPOCHS * (ptr \div NumEnvs)

\* C7: can_train() is false exactly when ptr <= num_frames + 1; train() then
\* returns without a get(), an optimizer step or a change of the buffer;
\* otherwise train() makes EPOCHS * (ptr // num_envs) update steps, each
\* with exactly one get().
C7_TrainGate == []C7_Counts /\ [][C7_TrainAction]_vars

C7_Witness ==
  /\ pc = "idle"
  /\ returned = "train"
  /\ ptr > NumFrames + 1
  /\ opt_steps = EPOCHS * (ptr \div NumEnvs)
  /\ opt_steps > 0
  /\ n_get = opt_steps

\* C8: get_stats() raises before compute_gae; after the arrays were
\* allocated, buffer_size save() calls and one compute_gae(), it returns
\* five finite scalars, whatever rewards and values were saved.
C8_StatsFinite ==
  /\ (ret.op = "get_stats" /\ ~calculated_gae) => ret.raised
  /\ (ret.op = "get_stats" /\ written = Rows /\ normalized) => Finite(ret)

clip(x, lo, hi) == IF x < lo THEN lo ELSE IF x > hi THEN hi ELSE x

\* C9: the per-sample actor term is
\* min(ratio*adv, clip(ratio, 1-eps, 1+eps)*adv) with eps = 0.2, the clip
\* interval being [0.8, 1.2] whatever the sign of adv: 1.2 for ratio 1.5 and
\* adv 1, -1.5 for ratio 1.5 and adv -1, and ratio*adv for a ratio inside
\* [0.8, 1.2].
C9_ClippedSurrogate ==
  surr.done =>
     /\ surr.term = Min(ratio * adv,
                        clip(ratio, OneTenths - EpsTenths,
                             OneTenths + EpsTenths) * adv)
     /\ (ratio = 15 /\ adv = 1) => surr.term = 12
     /\ (ratio = 15 /\ adv = 0 - 1) => surr.term = 0 - 15
     /\ (ratio \in (OneTenths - EpsTenths) .. (OneTenths + EpsTenths)) =>
           surr.term = ratio * adv

SavesThen(k, rest) == [i \in 1 .. k |-> "save"] \o rest

IsTrainCalls(sq) ==
  \A i \in 1 .. Len(sq) : sq[i] \in {"can_train", "get"}

C10_FirstRollout ==
  rollouts = 1 =>
     /\ pc # "crashed"
     /\ env_steps <= BufSize
     /\ ptr = env_steps
     /\ (pc = "stepping" => (~done_seen /\ env_steps < BufSize
                              /\ trace = SavesThen(env_steps, <<>>)))
     /\ (pc = "terminal" => (env_steps >= 1
                              /\ (done_seen \/ env_steps = BufSize)
                              /\ trace = SavesThen(env_steps, <<>>)))
     /\ (pc \in {"idle", "training"} =>
           /\ Len(trace) >= env_steps + 2
           /\ SubSeq(trace, 1, env_steps + 2) =
                SavesThen(env_steps, <<"compute_gae", "get_stats">>)
           /\ IsTrainCalls(SubSeq(trace, env_steps + 3, Len(trace))))
     /\ (ret.op = "compute_gae" =>
           /\ ~ret.raised
           /\ ret.row = env_steps
           /\ ret.next_value = lstm_call.value
           /\ Len(lstm_call.window) = NumFrames
           /\ newest(lstm_call.window) = env_obs)

\* C10: the first rollout() takes at most buffer_size environment steps and
\* stops right after the first step that reports done; it calls save() once
\* per step, so ptr is the number of steps taken, and then compute_gae()
\* once, after the last save() and before any get(), with the value the
\* model returns for the window that follows the last step.
C10_RolloutOrder == C10_FirstRollout

C10_Witness ==
  /\ rollouts = 1
  /\ returned = "rollout"
  /\ done_seen
  /\ env_steps \in 1 .. (BufSize - 1)
  /\ ptr = env_steps
  /\ ret.op = "compute_gae"
  /\ ret.next_value = Bcast(MaxValue)

\* C11: at every rollout step the observation stored in the buffer row is
\* the newest latent of the window that was fed to the model to produce the
\* action, value and log-prob stored in that row, not the latent of the
\* observation the environment step returned.
C11_StoresPreStepLatent ==
  (rollouts = 1 /\ pc \in {"stepping", "terminal"} /\ ret.op = "save"
     /\ ~ret.raised) =>
     /\ values[ret.row] = lstm_call.value
     /\ obs[ret.row] = Bcast(newest(lstm_call.window))

\* sum over k in 0 .. p-1-t of d^k * x[t+k], d = num/den, times
\* den^(BufSize-1): the discounted sum over the first p rows alone.
RECURSIVE CollectedSum(_, _, _, _, _, _, _)
CollectedSum(x, num, den, p, t, n, k) ==
  IF k > (p - 1) - t THEN 0
  ELSE Pow(num, k) * Pow(den, (BufSize - 1) - k) * x[t + k][n]
         + CollectedSum(x, num, den, p, t, n, k + 1)

\* C12: for an early-terminated rollout (ptr < buffer_size) the returns and
\* the advantages before normalization of the collected rows t < ptr are
\* the discounted sums over the ptr collected rewards and TD-residuals
\* alone; the unwritten rows, and the bootstrap value at row ptr, add no
\* further term.
C12_EarlyStopSumsCollectedOnly ==
  (rollouts = 1 /\ ret.op = "compute_gae" /\ ~ret.raised
     /\ ret.row < BufSize) =>
     \A t \in 0 .. (ret.row - 1) : \A n \in Envs :
        /\ returns[t][n] =
             CollectedSum(rewards, GammaNum, GammaDen, ret.row, t, n, 0)
        /\ advantage[t][n] =
             CollectedSum(ret.deltas, GLNum, GLDen, ret.row, t, n, 0)
====
